---- MODULE Spec2Model ----
(***************************************************************************)
(* Model of the reflect_on_past / store_reflection tool handlers of the    *)
(* claude-self-reflection MCP server                                       *)
(* (src/archived/typescript-mcp/claude-self-reflection/src/index.ts).      *)
(*                                                                         *)
(* Numbers.  Scores are fixed-point integers in millionths (0.75 is        *)
(* 750000).  DECAY_WEIGHT and the decay factor are in thousandths, so      *)
(* their product is in millionths and the adjusted score                   *)
(* originalScore + DECAY_WEIGHT * decayFactor is exact.                    *)
(* Time is counted in days; every timestamp of the model is a whole        *)
(* multiple of DECAY_SCALE_DAYS away from now, where Math.exp is tabled.   *)
(* Strings that the code inspects (query, payload.text) are sequences of   *)
(* one-character strings.  An optional value (a key that may be absent     *)
(* from the tool arguments or the payload) is <<>> or <<v>>.               *)
(***************************************************************************)
EXTENDS Integers, Sequences, FiniteSets, TLC

VARIABLES
    config,             \* process environment read at module load (lines 24-33)
    store,              \* the Qdrant store: collections in listing order
    embeddingService,   \* this.embeddingService is set
    pc,                 \* where the server is: constructed, idle, an await, done
    args,               \* arguments of the tool call being handled
    mode,               \* branch taken at line 222: "vector", "lexical", "none"
    voyageCollections,  \* result of getVoyageCollections() for this request
    searchPromises,     \* one promise per collection: status and value
    results,            \* the handler's `results`
    response,           \* what the call returned or threw
    io,                 \* calls issued to the outside during this request
    embedStatus,        \* generateEmbedding of this request: none, ok, failed
    listStatus          \* getCollections of line 228/382: none, ok, failed

vars == <<config, store, embeddingService, pc, args, mode, voyageCollections,
          searchPromises, results, response, io, embedStatus, listStatus>>

-----------------------------------------------------------------------------
(* Bounds of the model *)

MaxLimit == 2
Today == 400

(* Program constants *)

DefaultLimit == 5
DefaultMinScore == 700000
DefaultDecayWeight == 300
DefaultDecayScaleDays == 90
FallbackScore == 500000
ScrollLimit == 100

-----------------------------------------------------------------------------
(* Generic helpers *)

None == <<>>
Some(v) == <<v>>
IsSome(o) == Len(o) > 0
OrElse(o, d) == IF Len(o) > 0 THEN o[1] ELSE d

Min(a, b) == IF a < b THEN a ELSE b
Max(a, b) == IF a > b THEN a ELSE b

Range(s) == {s[i] : i \in 1..Len(s)}

\* Array.prototype.slice(0, end): a negative end counts from the back
SliceMutantOneLess(s, end) ==
    SubSeq(s, 1, Max(0, Min(end, Len(s)) - 1))

Slice(s, end) ==
    IF end < 0 THEN SubSeq(s, 1, Max(Len(s) + end, 0))
               ELSE SubSeq(s, 1, Min(end, Len(s)))

\* Array.prototype.flat on a sequence of sequences
RECURSIVE Flat(_)
Flat(ss) == IF ss = <<>> THEN <<>> ELSE Head(ss) \o Flat(Tail(ss))

\* Array.prototype.sort((a, b) => b.score - a.score).  The engines field
\* asks for node >= 18, whose sort is stable: an element is placed after
\* every element whose score is not smaller.
InsertUnstable(x, sorted) ==
    LET before == SelectSeq(sorted, LAMBDA y : y.score > x.score)
        after  == SelectSeq(sorted, LAMBDA y : y.score <= x.score)
    IN  before \o <<x>> \o after

Insert(x, sorted) ==
    LET before == SelectSeq(sorted, LAMBDA y : y.score >= x.score)
        after  == SelectSeq(sorted, LAMBDA y : y.score < x.score)
    IN  before \o <<x>> \o after

RECURSIVE SortByScoreDesc(_)
SortByScoreDesc(s) ==
    IF s = <<>> THEN <<>>
    ELSE Insert(s[Len(s)], SortByScoreDesc(SubSeq(s, 1, Len(s) - 1)))

-----------------------------------------------------------------------------
(* Strings of the lexical fallback *)

IsSpace(c) == c = " "

\* String.prototype.toLowerCase, one character
LowerChar(c) ==
    CASE c = "D" -> "d"
      [] c = "I" -> "i"
      [] c = "X" -> "x"
      [] OTHER   -> c

ToLowerCase(s) == [i \in 1..Len(s) |-> LowerChar(s[i])]

\* String.prototype.split(/\s+/): a leading or trailing run of white space
\* yields an empty token, and so does the empty string
RECURSIVE SkipSpaces(_, _)
SkipSpaces(s, i) ==
    IF i <= Len(s) /\ IsSpace(s[i]) THEN SkipSpaces(s, i + 1) ELSE i

RECURSIVE SplitFrom(_, _, _)
SplitFrom(s, i, cur) ==
    IF i > Len(s) THEN <<cur>>
    ELSE IF IsSpace(s[i]) THEN <<cur>> \o SplitFrom(s, SkipSpaces(s, i), <<>>)
    ELSE SplitFrom(s, i + 1, Append(cur, s[i]))

Split(s) == SplitFrom(s, 1, <<>>)

\* String.prototype.includes: word occurs in text as a substring
Includes(text, word) ==
    \E k \in 0..(Len(text) - Len(word)) :
        \A j \in 1..Len(word) : text[k + j] = word[j]

-----------------------------------------------------------------------------
(* The store *)

\* A collection name conv_<project>_<suffix>, kept in its three pieces
CollectionName(project, suffix) ==
    [prefix |-> "conv_", project |-> project, suffix |-> suffix]

\* name.endsWith('_voyage')
EndsWithVoyage(name) == name.suffix = "_voyage"

Timestamp(day) == [kind |-> "valid", day |-> day]
MissingTimestamp == [kind |-> "missing", day |-> 0]
InvalidTimestamp == [kind |-> "invalid", day |-> 0]

Point(id, score, timestamp, text) ==
    [id |-> id, score |-> score, timestamp |-> timestamp, text |-> text]

TextIndexing == <<"D", "b", " ", "i", "x">>
TextUpper == <<"I", "X">>
TextCat == <<"c", "a", "t">>
TextD == <<"d">>

\* the contents a collection can have; score is the similarity of the
\* point to the query vector
PointsRecent ==
    << Point(1, 600000, Timestamp(Today), TextIndexing),
       Point(2, 600000, Timestamp(Today - DefaultDecayScaleDays), TextCat) >>

PointsTies ==
    << Point(1, 800000, Timestamp(Today - 2 * DefaultDecayScaleDays), TextIndexing),
       Point(2, 800000, InvalidTimestamp, TextUpper),
       Point(3, 700000, MissingTimestamp, TextCat),
       Point(4, 650000, Timestamp(Today + DefaultDecayScaleDays), TextD) >>

PointLists == { <<>>, PointsRecent, PointsTies }

\* a collection one point larger than a scroll page: the first and the
\* last point hold the word "ix", the points between them do not
PointsPage ==
    [i \in 1..(ScrollLimit + 1) |->
        Point(i, 600000, Timestamp(Today),
              IF i = 1 THEN TextIndexing
              ELSE IF i > ScrollLimit THEN TextUpper ELSE TextCat)]

Stores ==
    { << [name |-> CollectionName("projA", "_voyage"), points |-> pa],
         [name |-> CollectionName("projA", "_local"), points |-> PointsRecent],
         [name |-> CollectionName("projB", "_voyage"), points |-> pb] >> :
      pa \in PointLists, pb \in PointLists \ {<<>>} }

\* the store whose first collection exceeds a scroll page
PageStores ==
    { << [name |-> CollectionName("projA", "_voyage"), points |-> PointsPage],
         [name |-> CollectionName("projA", "_local"), points |-> PointsRecent],
         [name |-> CollectionName("projB", "_voyage"), points |-> PointsTies] >> }

PointsOf(collectionName) ==
    LET i == CHOOSE j \in 1..Len(store) : store[j].name = collectionName
    IN  store[i].points

\* qdrantClient.search(collection, {vector, limit, score_threshold}): the
\* points at or above the threshold, best raw score first, at most `limit`
RECURSIVE StoreRankFrom(_, _)
StoreRankFrom(points, scores) ==
    IF scores = {} THEN <<>>
    ELSE LET best == CHOOSE x \in scores : \A y \in scores : x >= y
         IN  SelectSeq(points, LAMBDA p : p.score = best)
                 \o StoreRankFrom(points, scores \ {best})

StoreRank(points) ==
    StoreRankFrom(points, { points[i].score : i \in 1..Len(points) })

StoreSearch(points, limit, score_threshold) ==
    LET kept == IF IsSome(score_threshold)
                THEN SelectSeq(points, LAMBDA p : p.score >= score_threshold[1])
                ELSE points
    IN  SubSeq(StoreRank(kept), 1, Min(Max(limit, 0), Len(kept)))

\* a scroll that ignores its limit
StoreScrollMutantAll(points, limit) == points

\* qdrantClient.scroll(collection, {limit}): the first `limit` points
StoreScroll(points, limit) == SubSeq(points, 1, Min(limit, Len(points)))

-----------------------------------------------------------------------------
(* Configuration and requests *)

\* lines 24-33 and 75-81: the environment the process is started with.
\* ALLOW_CROSS_PROJECT is left at the value it has when the environment
\* does not set it.  DECAY_WEIGHT and DECAY_SCALE_DAYS are whatever
\* parseFloat makes of the environment (lines 32-33): the defaults under
\* every isolation mode, and, under the default mode with decay enabled, a
\* negative weight and a zero scale.
DecaySettings ==
    { [weight |-> DefaultDecayWeight, scaleDays |-> DefaultDecayScaleDays],
      [weight |-> 0 - DefaultDecayWeight, scaleDays |-> DefaultDecayScaleDays],
      [weight |-> DefaultDecayWeight, scaleDays |-> 0] }

Configs ==
    { c \in [ ISOLATION_MODE : {"isolated", "shared", "hybrid"},
              ALLOW_CROSS_PROJECT : {FALSE},
              ENABLE_MEMORY_DECAY : BOOLEAN,
              DECAY_WEIGHT : { d.weight : d \in DecaySettings },
              DECAY_SCALE_DAYS : { d.scaleDays : d \in DecaySettings },
              currentProject : {"projA"} ] :
          /\ [weight |-> c.DECAY_WEIGHT, scaleDays |-> c.DECAY_SCALE_DAYS]
                 \in DecaySettings
          /\ (c.DECAY_WEIGHT # DefaultDecayWeight
                 \/ c.DECAY_SCALE_DAYS # DefaultDecayScaleDays) =>
                 (c.ISOLATION_MODE = "hybrid" /\ c.ENABLE_MEMORY_DECAY) }

\* "ix", "zz" and " zz", which starts with white space
Queries == { <<"i", "x">>, <<"z", "z">>, <<" ", "z", "z">> }

\* the tool arguments of lines 111-143; crossProject is only set on
\* requests that name no project, and the query that starts with white
\* space comes with no project, crossProject or useDecay
Requests ==
    { a \in [ query : Queries,
              limit : { Some(l) : l \in 0..MaxLimit },
              minScore : { None, Some(750000), Some(1200000) },
              project : { None, Some("projA"), Some("projB") },
              crossProject : BOOLEAN,
              useDecay : { None, Some(TRUE), Some(FALSE) } ] :
          /\ a.crossProject => a.project = None
          /\ IsSpace(a.query[1]) =>
                 (a.project = None /\ ~a.crossProject /\ a.useDecay = None) }

\* destructuring defaults of line 194
Limit(a) == OrElse(a.limit, DefaultLimit)
MinScore(a) == OrElse(a.minScore, DefaultMinScore)

\* a false useDecay that does not override the environment
shouldUseDecayMutantOr(a) ==
    OrElse(a.useDecay, FALSE) \/ config.ENABLE_MEMORY_DECAY

\* line 195
shouldUseDecay(a) == OrElse(a.useDecay, config.ENABLE_MEMORY_DECAY)

-----------------------------------------------------------------------------
(* Decay scoring, lines 280-322 *)

\* ageMs of lines 285-296, in days: 0 unless the payload carries a
\* timestamp that new Date() can parse
AgeDays(point) ==
    IF point.timestamp.kind = "valid" THEN Today - point.timestamp.day ELSE 0

\* The IEEE values that are no fixed-point number.  NaN stands below and
\* Infinity above every score: the code only ever tests an adjusted score
\* with >= minScore (false for NaN, true for Infinity) and orders the
\* scores that passed that test.
NaN == -2000000000
Infinity == 2000000000

\* Math.exp(-ageMs / scaleMs) in thousandths, tabled at whole multiples of
\* the scale: e, 1, 1/e, 1/e^2, 1/e^3.  With a zero scale the quotient is
\* -Infinity, NaN (0 / 0) or +Infinity.
DecayFactor(ageDays, scaleDays) ==
    IF scaleDays = 0
    THEN IF ageDays > 0 THEN 0 ELSE IF ageDays = 0 THEN NaN ELSE Infinity
    ELSE LET k == ageDays \div scaleDays
         IN  CASE k <= -1 -> 2718
               [] k = 0   -> 1000
               [] k = 1   -> 368
               [] k = 2   -> 135
               [] OTHER   -> 50

\* DECAY_WEIGHT * decayFactor
Boost(weight, decayFactor) ==
    IF decayFactor = NaN THEN NaN
    ELSE IF decayFactor = Infinity
    THEN IF weight > 0 THEN Infinity ELSE IF weight < 0 THEN 0 - Infinity ELSE NaN
    ELSE weight * decayFactor

\* line 302: originalScore + DECAY_WEIGHT * decayFactor
AdjustedScore(point) ==
    LET boost == Boost(config.DECAY_WEIGHT,
                       DecayFactor(AgeDays(point), config.DECAY_SCALE_DAYS))
    IN  IF boost \in {NaN, Infinity, 0 - Infinity} THEN boost
        ELSE point.score + boost

\* lines 313-316: {...point, score: adjustedScore}
ApplyDecay(searchResponse) ==
    [i \in 1..Len(searchResponse) |->
        [searchResponse[i] EXCEPT !.score = AdjustedScore(searchResponse[i])]]

\* lines 351-360 and 399-408: the SearchResult built from a point
ToResult(point, score, collectionName) ==
    [id |-> point.id, score |-> score, collectionName |-> collectionName]

\* Math.ceil(limit * 3) and Math.ceil(limit * 1.5) for an integer limit
DecayFetchLimit(limit) == 3 * limit
PlainFetchLimit(limit) == (3 * limit + 1) \div 2

\* lines 260-335: the decay branch of the per-collection callback, from the
\* store's answer to the filtered, sorted, truncated list
DecayBranchMutantFilterRaw(points, a) ==
    LET searchResponse == StoreSearch(points, DecayFetchLimit(Limit(a)), None)
        raw == SelectSeq(searchResponse, LAMBDA p : p.score >= MinScore(a))
    IN  Slice(SortByScoreDesc(ApplyDecay(raw)), Limit(a))

\* the decay branch truncating to limit before it filters
DecayBranchMutantSliceFirst(points, a) ==
    LET searchResponse == StoreSearch(points, DecayFetchLimit(Limit(a)), None)
        decayed == Slice(ApplyDecay(searchResponse), Limit(a))
        kept == SelectSeq(decayed, LAMBDA p : p.score >= MinScore(a))
    IN  SortByScoreDesc(kept)

\* the decay branch truncating each collection to one entry less than limit
DecayBranchMutantSliceShort(points, a) ==
    LET searchResponse == StoreSearch(points, DecayFetchLimit(Limit(a)), None)
        decayed == ApplyDecay(searchResponse)
        kept == SelectSeq(decayed, LAMBDA p : p.score >= MinScore(a))
    IN  Slice(SortByScoreDesc(kept), Limit(a) - 1)

DecayBranch(points, a) ==
    LET searchResponse == StoreSearch(points, DecayFetchLimit(Limit(a)), None)
        decayed == ApplyDecay(searchResponse)
        kept == SelectSeq(decayed, LAMBDA p : p.score >= MinScore(a))
    IN  Slice(SortByScoreDesc(kept), Limit(a))

\* the standard search issued without score_threshold
PlainBranchMutantNoThreshold(points, a) ==
    StoreSearch(points, PlainFetchLimit(Limit(a)), None)

\* lines 337-345: the standard branch
PlainBranch(points, a) ==
    StoreSearch(points, PlainFetchLimit(Limit(a)), Some(MinScore(a)))

\* lines 256-360: what the callback of one collection resolves to when the
\* store answers
VectorSearchCollection(collectionName, a) ==
    LET points == PointsOf(collectionName)
        searchResponse == IF shouldUseDecay(a) THEN DecayBranch(points, a)
                                               ELSE PlainBranch(points, a)
    IN  [i \in 1..Len(searchResponse) |->
            ToResult(searchResponse[i], searchResponse[i].score, collectionName)]

\* lines 385-408: the fallback callback of one collection
TextSearchCollection(collectionName, a) ==
    LET points == StoreScroll(PointsOf(collectionName), ScrollLimit)
        queryWords == Split(ToLowerCase(a.query))
        matches == SelectSeq(points, LAMBDA p :
                       \E w \in Range(queryWords) : Includes(ToLowerCase(p.text), w))
    IN  [i \in 1..Len(matches) |-> ToResult(matches[i], FallbackScore, collectionName)]

SearchCollection(collectionName, a, m) ==
    IF m = "vector" THEN VectorSearchCollection(collectionName, a)
                    ELSE TextSearchCollection(collectionName, a)

\* lines 368-376 and 415-418: Promise.all, flat, (sort), slice
allResults == [i \in 1..Len(searchPromises) |-> searchPromises[i].value]

\* a merge that keeps one result per point id, the first one
RECURSIVE DedupById(_)
DedupById(list) ==
    IF list = <<>> THEN <<>>
    ELSE LET front == DedupById(SubSeq(list, 1, Len(list) - 1))
             last == list[Len(list)]
         IN  IF \E k \in 1..Len(front) : front[k].id = last.id
             THEN front ELSE Append(front, last)

AggregateMutantDedup(all, a, m) ==
    IF m = "vector" THEN Slice(SortByScoreDesc(DedupById(Flat(all))), Limit(a))
                    ELSE Slice(DedupById(Flat(all)), Limit(a))

Aggregate(all, a, m) ==
    IF m = "vector" THEN Slice(SortByScoreDesc(Flat(all)), Limit(a))
                    ELSE Slice(Flat(all), Limit(a))

-----------------------------------------------------------------------------
(* State *)

NoIo == [initialize |-> 0, embed |-> 0, list |-> 0, search |-> 0, scroll |-> 0]

NoArgs == [query |-> <<>>, limit |-> None, minScore |-> None, project |-> None,
           crossProject |-> FALSE, useDecay |-> None]

NoResponse == [kind |-> "none", count |-> 0]

\* lines 59-84 and 512: the constructed server, nothing initialized yet
Init ==
    /\ config \in Configs
    /\ store \in Stores
    /\ embeddingService = FALSE
    /\ pc = "constructed"
    /\ args = NoArgs
    /\ mode = "none"
    /\ voyageCollections = <<>>
    /\ searchPromises = <<>>
    /\ results = <<>>
    /\ response = NoResponse
    /\ io = NoIo
    /\ embedStatus = "none"
    /\ listStatus = "none"

ServerUnchanged == UNCHANGED <<config, store>>

\* lines 495-509: run() initializes the embedding service (a failure is
\* caught at line 99) and connects the transport
run ==
    /\ pc = "constructed"
    /\ \E ok \in BOOLEAN : embeddingService' = ok
    /\ pc' = "idle"
    /\ ServerUnchanged
    /\ UNCHANGED <<args, mode, voyageCollections, searchPromises, results,
                   response, io, embedStatus, listStatus>>

Ready == pc = "idle"

\* line 225: generateEmbedding is called
CallEmbedding(ioNow) ==
    /\ mode' = "vector"
    /\ pc' = "embedding"
    /\ io' = [ioNow EXCEPT !.embed = @ + 1]

\* line 382: the fallback branch calls getVoyageCollections
CallFallbackListing(ioNow) ==
    /\ mode' = "lexical"
    /\ pc' = "listing"
    /\ io' = [ioNow EXCEPT !.list = @ + 1]

\* a handler that stays degraded: without an embedding service it goes to
\* the text search at once
handleReflectOnPastMutantSticky(a) ==
    /\ Ready
    /\ args' = a
    /\ voyageCollections' = <<>>
    /\ searchPromises' = <<>>
    /\ results' = <<>>
    /\ response' = NoResponse
    /\ embedStatus' = "none"
    /\ listStatus' = "none"
    /\ IF embeddingService THEN CallEmbedding(NoIo) ELSE CallFallbackListing(NoIo)
    /\ UNCHANGED embeddingService
    /\ ServerUnchanged

\* lines 193-225: the handler up to its first await
handleReflectOnPast(a) ==
    /\ Ready
    /\ args' = a
    /\ voyageCollections' = <<>>
    /\ searchPromises' = <<>>
    /\ results' = <<>>
    /\ response' = NoResponse
    /\ embedStatus' = "none"
    /\ listStatus' = "none"
    /\ IF embeddingService
       THEN CallEmbedding(NoIo)
       ELSE /\ mode' = "none"
            /\ pc' = "initializing"
            /\ io' = [NoIo EXCEPT !.initialize = 1]
    /\ UNCHANGED embeddingService
    /\ ServerUnchanged

\* lines 86-98, 216-225: createEmbeddingService resolves
InitializeSucceeds ==
    /\ pc = "initializing"
    /\ embeddingService' = TRUE
    /\ CallEmbedding(io)
    /\ ServerUnchanged
    /\ UNCHANGED <<args, voyageCollections, searchPromises, results, response,
                   embedStatus, listStatus>>

\* lines 99-102, 378-382: createEmbeddingService throws, initialize()
\* catches it and the handler goes to the text search
InitializeFails ==
    /\ pc = "initializing"
    /\ CallFallbackListing(io)
    /\ ServerUnchanged
    /\ UNCHANGED <<embeddingService, args, voyageCollections, searchPromises,
                   results, response, embedStatus, listStatus>>

\* lines 225-228: the embedding arrives, getVoyageCollections is called
EmbeddingSucceeds ==
    /\ pc = "embedding"
    /\ embedStatus' = "ok"
    /\ pc' = "listing"
    /\ io' = [io EXCEPT !.list = @ + 1]
    /\ ServerUnchanged
    /\ UNCHANGED <<embeddingService, args, mode, voyageCollections,
                   searchPromises, results, response, listStatus>>

\* the embed failure swallowed and answered with the no-results text
EmbeddingFailsMutantNoResults ==
    /\ pc = "embedding"
    /\ embedStatus' = "failed"
    /\ response' = [kind |-> "noResults", count |-> 0]
    /\ pc' = "done"
    /\ ServerUnchanged
    /\ UNCHANGED <<embeddingService, args, mode, voyageCollections,
                   searchPromises, results, io, listStatus>>

\* lines 225, 464-470: generateEmbedding throws, the outer catch turns it
\* into an McpError
EmbeddingFails ==
    /\ pc = "embedding"
    /\ embedStatus' = "failed"
    /\ response' = [kind |-> "McpError", count |-> 0]
    /\ pc' = "done"
    /\ ServerUnchanged
    /\ UNCHANGED <<embeddingService, args, mode, voyageCollections,
                   searchPromises, results, io, listStatus>>

\* lines 181-191: getVoyageCollections, on the store's answer and on its
\* failure
VoyageNames ==
    SelectSeq([i \in 1..Len(store) |-> store[i].name], EndsWithVoyage)

\* lines 230-256 and 385: after the listing, the vector branch returns when
\* there is no collection; otherwise one callback per collection is started
\* and runs up to its await of search or scroll
AfterListing(collections) ==
    /\ voyageCollections' = collections
    /\ IF mode = "vector" /\ Len(collections) = 0
       THEN /\ response' = [kind |-> "noCollections", count |-> 0]
            /\ pc' = "done"
            /\ UNCHANGED <<searchPromises, io>>
       ELSE /\ searchPromises' =
                [i \in 1..Len(collections) |-> [status |-> "pending", value |-> <<>>]]
            /\ pc' = "searching"
            /\ io' = IF mode = "vector"
                     THEN [io EXCEPT !.search = @ + Len(collections)]
                     ELSE [io EXCEPT !.scroll = @ + Len(collections)]
            /\ UNCHANGED response
    /\ ServerUnchanged
    /\ UNCHANGED <<embeddingService, args, mode, results, embedStatus>>

GetCollectionsSucceeds ==
    /\ pc = "listing"
    /\ listStatus' = "ok"
    /\ AfterListing(VoyageNames)

\* the listing failure reaching the handler's catch of line 464
GetCollectionsFailsMutantThrow ==
    /\ pc = "listing"
    /\ listStatus' = "failed"
    /\ response' = [kind |-> "McpError", count |-> 0]
    /\ pc' = "done"
    /\ ServerUnchanged
    /\ UNCHANGED <<embeddingService, args, mode, voyageCollections,
                   searchPromises, results, io, embedStatus>>

GetCollectionsFails ==
    /\ pc = "listing"
    /\ listStatus' = "failed"
    /\ AfterListing(<<>>)

Settle(i, status, value) ==
    /\ pc = "searching"
    /\ i \in 1..Len(searchPromises)
    /\ searchPromises[i].status = "pending"
    /\ searchPromises' =
           [searchPromises EXCEPT ![i] = [status |-> status, value |-> value]]
    /\ ServerUnchanged
    /\ UNCHANGED <<embeddingService, pc, args, mode, voyageCollections, results,
                   response, io, embedStatus, listStatus>>

\* lines 256-360, 385-408: the store answers collection i
SearchResolves(i) ==
    Settle(i, "fulfilled", SearchCollection(voyageCollections[i], args, mode))

\* the failure of one collection rejecting Promise.all
SearchFailsMutantRethrow(i) ==
    /\ pc = "searching"
    /\ i \in 1..Len(searchPromises)
    /\ searchPromises[i].status = "pending"
    /\ searchPromises' =
           [searchPromises EXCEPT ![i] = [status |-> "caught", value |-> <<>>]]
    /\ response' = [kind |-> "McpError", count |-> 0]
    /\ pc' = "done"
    /\ ServerUnchanged
    /\ UNCHANGED <<embeddingService, args, mode, voyageCollections, results,
                   io, embedStatus, listStatus>>

\* lines 361-364, 409-412: the query of collection i throws and is caught
SearchFails(i) ==
    Settle(i, "caught", <<>>)

\* Promise.all resolving as soon as one callback has settled
AllSettledMutantAny ==
    \/ Len(searchPromises) = 0
    \/ \E i \in 1..Len(searchPromises) : searchPromises[i].status # "pending"

\* line 368, 415: await Promise.all(searchPromises)
AllSettled == \A i \in 1..Len(searchPromises) : searchPromises[i].status # "pending"

\* lines 368-376, 415-423, 445-463: Promise.all resolves; an empty list goes
\* on to list the collections again for the message
PromiseAll ==
    /\ pc = "searching"
    /\ AllSettled
    /\ results' = Aggregate(allResults, args, mode)
    /\ IF results' = <<>>
       THEN /\ pc' = "relisting"
            /\ io' = [io EXCEPT !.list = @ + 1]
            /\ UNCHANGED response
       ELSE /\ pc' = "done"
            /\ response' = [kind |-> "found", count |-> Len(results')]
            /\ UNCHANGED io
    /\ ServerUnchanged
    /\ UNCHANGED <<embeddingService, args, mode, voyageCollections,
                   searchPromises, embedStatus, listStatus>>

\* lines 421-443: the listing for the message settles (its failure is
\* caught at line 187) and the no-results text is returned
NoResults ==
    /\ pc = "relisting"
    /\ response' = [kind |-> "noResults", count |-> 0]
    /\ pc' = "done"
    /\ ServerUnchanged
    /\ UNCHANGED <<embeddingService, args, mode, voyageCollections,
                   searchPromises, results, io, embedStatus, listStatus>>

\* store_reflection writing the reflection into the first collection
handleStoreReflectionMutantUpsert ==
    /\ Ready
    /\ response' = [kind |-> "stored", count |-> 0]
    /\ pc' = "done"
    /\ store' = [store EXCEPT ![1].points =
                     IF \E k \in 1..Len(@) : @[k].id = 0 THEN @
                     ELSE Append(@, Point(0, 0, Timestamp(Today), TextD))]
    /\ UNCHANGED <<config, embeddingService, args, mode, voyageCollections,
                   searchPromises, results, io, embedStatus, listStatus>>

\* lines 473-493: store_reflection answers without storing
handleStoreReflection ==
    /\ Ready
    /\ response' = [kind |-> "stored", count |-> 0]
    /\ pc' = "done"
    /\ ServerUnchanged
    /\ UNCHANGED <<embeddingService, args, mode, voyageCollections,
                   searchPromises, results, io, embedStatus, listStatus>>

\* the response has gone to the caller; the locals of the call are dropped
Return ==
    /\ pc = "done"
    /\ pc' = "idle"
    /\ args' = NoArgs
    /\ mode' = "none"
    /\ voyageCollections' = <<>>
    /\ searchPromises' = <<>>
    /\ results' = <<>>
    /\ response' = NoResponse
    /\ io' = NoIo
    /\ embedStatus' = "none"
    /\ listStatus' = "none"
    /\ ServerUnchanged
    /\ UNCHANGED embeddingService

Next ==
    \/ run
    \/ \E a \in Requests : handleReflectOnPast(a)
    \/ InitializeSucceeds
    \/ InitializeFails
    \/ EmbeddingSucceeds
    \/ EmbeddingFails
    \/ GetCollectionsSucceeds
    \/ GetCollectionsFails
    \/ \E i \in 1..Len(searchPromises) : SearchResolves(i)
    \/ \E i \in 1..Len(searchPromises) : SearchFails(i)
    \/ PromiseAll
    \/ NoResults
    \/ handleStoreReflection
    \/ Return

Spec == Init /\ [][Next]_vars

\* the server constructed in front of the store of PageStores, under the
\* default decay settings
PageInit ==
    /\ config \in { c \in Configs : /\ c.ISOLATION_MODE = "hybrid"
                                   /\ c.DECAY_WEIGHT = DefaultDecayWeight
                                   /\ c.DECAY_SCALE_DAYS = DefaultDecayScaleDays }
    /\ store \in PageStores
    /\ embeddingService = FALSE
    /\ pc = "constructed"
    /\ args = NoArgs
    /\ mode = "none"
    /\ voyageCollections = <<>>
    /\ searchPromises = <<>>
    /\ results = <<>>
    /\ response = NoResponse
    /\ io = NoIo
    /\ embedStatus = "none"
    /\ listStatus = "none"

PageSpec == PageInit /\ [][Next]_vars

-----------------------------------------------------------------------------
(* Vocabulary of the properties *)

\* a reflect_on_past call has returned after its fan-out
Answered == pc = "done" /\ response.kind \in {"found", "noResults"}

Fulfilled == {i \in 1..Len(searchPromises) : searchPromises[i].status = "fulfilled"}
Caught == {i \in 1..Len(searchPromises) : searchPromises[i].status = "caught"}

\* the project a collection belongs to: the middle piece of its name
ProjectOf(collectionName) == collectionName.project

\* the candidates the store handed to the decay branch of collection i
RetrievedForDecay(i) ==
    StoreSearch(PointsOf(voyageCollections[i]), DecayFetchLimit(Limit(args)), None)

\* every candidate retrieved in decay mode, with its collection, raw and
\* adjusted score
DecayCandidates ==
    UNION { { [collectionName |-> voyageCollections[i], id |-> p.id,
               raw |-> p.score, adjusted |-> AdjustedScore(p)] :
              p \in Range(RetrievedForDecay(i)) } : i \in Fulfilled }

InResults(c) ==
    \E k \in 1..Len(results) :
        results[k].id = c.id /\ results[k].collectionName = c.collectionName

\* the number of other candidates that pass the filter and score at least
\* as much as c
AheadOf(c) ==
    Cardinality({d \in DecayCandidates :
                    d # c /\ d.adjusted >= MinScore(args) /\ d.adjusted >= c.adjusted})

\* C1: in decay mode the minScore filter looks at the adjusted score: a
\* retrieved candidate whose adjusted score is below minScore is not in the
\* final results, whatever its raw score, and one whose adjusted score is
\* at least minScore is in them, carrying the adjusted score, whenever
\* fewer than limit other passing candidates score as much.
C1_FilterAfterDecay ==
    (Answered /\ mode = "vector" /\ shouldUseDecay(args)) =>
        \A c \in DecayCandidates :
            /\ c.adjusted < MinScore(args) => ~InResults(c)
            /\ (c.adjusted >= MinScore(args) /\ AheadOf(c) < Limit(args)) =>
                   [id |-> c.id, score |-> c.adjusted,
                    collectionName |-> c.collectionName] \in Range(results)

\* a candidate below minScore by its raw score is returned, next to one
\* that decay leaves below minScore
C1_Witness ==
    /\ Answered /\ mode = "vector" /\ shouldUseDecay(args)
    /\ \E c \in DecayCandidates :
           c.raw < MinScore(args) /\ c.adjusted >= MinScore(args) /\ InResults(c)
    /\ \E c \in DecayCandidates : c.adjusted < MinScore(args) /\ ~InResults(c)

\* C2: in isolated mode, without a project in the request, no result comes
\* from a collection of another project than the current one.
C2_IsolatedOwnProjectOnly ==
    (config.ISOLATION_MODE = "isolated" /\ args.project = None) =>
        \A k \in 1..Len(results) :
            ProjectOf(results[k].collectionName) = config.currentProject

\* C3: in hybrid mode with crossProject false, every result comes from a
\* collection of the current project.
C3_HybridOwnProjectOnly ==
    (config.ISOLATION_MODE = "hybrid" /\ ~args.crossProject) =>
        \A k \in 1..Len(results) :
            ProjectOf(results[k].collectionName) = config.currentProject

\* C4: when the request names a project, the collections queried are
\* exactly the collections of that project, in every isolation mode; in
\* isolated mode a request for a foreign project queries nothing and ends
\* as an empty answer that is no error.
C4_ProjectNarrowsCollections ==
    (IsSome(args.project) /\ pc \in {"searching", "relisting", "done"}
        /\ listStatus = "ok") =>
        /\ \A i \in 1..Len(searchPromises) :
               ProjectOf(voyageCollections[i]) = args.project[1]
        /\ (config.ISOLATION_MODE = "isolated"
               /\ args.project[1] # config.currentProject) =>
               /\ Len(searchPromises) = 0
               /\ io.search = 0 /\ io.scroll = 0
               /\ pc = "done" => response.kind \in {"noResults", "noCollections"}

\* what collection i contributes when its query does not fail
Unfailed(i) == SearchCollection(voyageCollections[i], args, mode)

\* C5: a failing collection query is absorbed: the collection contributes
\* an empty list, every other collection contributes what it would have
\* contributed had nothing failed, the final list is the aggregate of
\* those, and the request does not end in an error.
C5_CollectionFailureAbsorbed ==
    (pc \in {"searching", "relisting", "done"} /\ Len(searchPromises) > 0) =>
        /\ \A i \in Caught : searchPromises[i].value = <<>>
        /\ \A i \in Fulfilled : searchPromises[i].value = Unfailed(i)
        /\ response.kind # "McpError"
        /\ pc = "done" =>
               /\ response.kind \in {"found", "noResults"}
               /\ results = Aggregate(
                      [i \in 1..Len(searchPromises) |->
                          IF i \in Caught THEN <<>> ELSE Unfailed(i)], args, mode)

\* one collection failed, the other one's results were returned
C5_Witness ==
    /\ pc = "done"
    /\ Caught # {}
    /\ \E i \in Fulfilled : searchPromises[i].value # <<>>
    /\ response.kind = "found"
    /\ results # <<>>

\* C6: a request that finds no embedding capability, or whose embed call
\* fails, goes to the lexical fallback and ends with an answer, never with
\* an error.
C6_EmbeddingFailureDegrades ==
    (pc = "done" /\ response.kind # "stored"
        /\ (embedStatus = "failed" \/ ~embeddingService)) =>
        /\ mode = "lexical"
        /\ response.kind \in {"found", "noResults"}

\* a request is invalid when its limit is not positive or its minScore is
\* outside [0, 1]
InvalidRequest(a) ==
    \/ Limit(a) <= 0
    \/ MinScore(a) < 0
    \/ MinScore(a) > 1000000

\* C7: an invalid request is rejected before any embedding, listing, search
\* or scroll call is issued, and no result list is returned for it.
C7_InvalidRequestRejected ==
    (pc \in {"initializing", "embedding", "listing", "searching", "relisting", "done"}
        /\ response.kind # "stored" /\ InvalidRequest(args)) =>
        /\ io.embed = 0 /\ io.list = 0 /\ io.search = 0 /\ io.scroll = 0
        /\ response.kind \notin {"found", "noResults", "noCollections"}

\* C8: a failing collection listing counts as zero collections: the
\* request goes on, never ends in an error because of it, and ends with an
\* empty answer, in the vector and in the lexical branch.
C8_ListingFailureIsEmpty ==
    listStatus = "failed" =>
        /\ voyageCollections = <<>>
        /\ results = <<>>
        /\ response.kind # "McpError"
        /\ pc \in {"searching", "relisting", "done"}
        /\ pc = "done" =>
               response.kind = (IF mode = "vector" THEN "noCollections"
                                                   ELSE "noResults")

\* the lexical branch went through its empty fan-out to the no-results text
C8_Witness ==
    /\ listStatus = "failed"
    /\ pc = "done"
    /\ mode = "lexical"
    /\ response.kind = "noResults"
    /\ io.scroll = 0

\* the qualifying candidates of collection i: what the store returned,
\* scored for the branch taken, that passes minScore (a match in the
\* lexical branch)
Qualifying(i) ==
    LET name == voyageCollections[i]
        points == PointsOf(name)
        scored ==
            IF mode = "vector" /\ shouldUseDecay(args)
            THEN SelectSeq(ApplyDecay(RetrievedForDecay(i)),
                           LAMBDA p : p.score >= MinScore(args))
            ELSE IF mode = "vector"
            THEN StoreSearch(points, PlainFetchLimit(Limit(args)), Some(MinScore(args)))
            ELSE [k \in 1..Len(TextSearchCollection(name, args)) |->
                     [id |-> TextSearchCollection(name, args)[k].id,
                      score |-> FallbackScore]]
    IN  { [id |-> scored[k].id, score |-> scored[k].score, collectionName |-> name] :
            k \in 1..Len(scored) }

AllQualifying == UNION { Qualifying(i) : i \in Fulfilled }

\* C9: with a positive limit the final list has min(limit, number of
\* qualifying candidates) entries, all of them qualifying candidates, none
\* twice, and each scores at least as much as every qualifying candidate
\* left out.
C9_TopLimit ==
    (Answered /\ Limit(args) > 0) =>
        /\ Len(results) = Min(Limit(args), Cardinality(AllQualifying))
        /\ Cardinality(Range(results)) = Len(results)
        /\ Range(results) \subseteq AllQualifying
        /\ \A r \in Range(results) : \A q \in AllQualifying \ Range(results) :
               r.score >= q.score

\* more candidates qualify than the limit admits, and one left out scores
\* strictly less than one returned
C9_Witness ==
    /\ Answered /\ Limit(args) > 0 /\ mode = "vector"
    /\ Cardinality(AllQualifying) > Limit(args)
    /\ \E r \in Range(results) : \E q \in AllQualifying \ Range(results) :
           r.score > q.score

flatResults == Flat(allResults)

\* the place of a result in the concatenated per-collection lists
PositionIn(flat, r) == CHOOSE k \in 1..Len(flat) : flat[k] = r

\* C10: the merge of the vector branch sorts by score, descending and
\* stable: results of equal score keep the order they have in the
\* concatenation of the per-collection lists.
C10_StableMerge ==
    (Answered /\ mode = "vector") =>
        \A i, j \in 1..Len(results) :
            i < j =>
                /\ results[i].score >= results[j].score
                /\ results[i] \in Range(flatResults)
                /\ results[j] \in Range(flatResults)
                /\ results[i].score = results[j].score =>
                       PositionIn(flatResults, results[i])
                           < PositionIn(flatResults, results[j])

\* two results of equal score from different collections were merged
C10_Witness ==
    /\ Answered /\ mode = "vector"
    /\ \E i, j \in 1..Len(results) :
           /\ i < j
           /\ results[i].score = results[j].score
           /\ results[i].collectionName # results[j].collectionName

\* the whitespace-delimited tokens of a query: its maximal runs of
\* characters that are not white space, in lower case
QueryTokens(query) ==
    { ToLowerCase(SubSeq(query, i, j)) :
        <<i, j>> \in { t \in (1..Len(query)) \X (1..Len(query)) :
                         /\ t[1] <= t[2]
                         /\ \A k \in t[1]..t[2] : ~IsSpace(query[k])
                         /\ t[1] = 1 \/ IsSpace(query[t[1] - 1])
                         /\ t[2] = Len(query) \/ IsSpace(query[t[2] + 1]) } }

\* the points of a collection whose text contains a token of the query
TokenMatches(collectionName, query) ==
    { p.id : p \in { q \in Range(PointsOf(collectionName)) :
                       \E w \in QueryTokens(query) :
                           Includes(ToLowerCase(q.text), w) } }

\* C11: in the lexical fallback a collection returns a point if and only if
\* the text of the point contains, whatever the case, a whitespace-delimited
\* token of the query; a query none of whose tokens occurs in a text ends
\* as an empty answer that is no error.
C11_LexicalMatchIffTokenInText ==
    (mode = "lexical" /\ pc \in {"searching", "relisting", "done"}) =>
        /\ \A i \in Fulfilled :
               { r.id : r \in Range(searchPromises[i].value) }
                   = TokenMatches(voyageCollections[i], args.query)
        /\ (pc = "done"
               /\ \A i \in 1..Len(voyageCollections) :
                      TokenMatches(voyageCollections[i], args.query) = {}) =>
               (response.kind = "noResults" /\ results = <<>>)

Pending == {i \in 1..Len(searchPromises) : searchPromises[i].status = "pending"}

\* C12: the aggregation of a request starts only when every collection
\* query has settled, by an answer or by a caught failure: while one is
\* pending the result list is empty and no response exists, and a response
\* is only ever built from the values of all the collections.
C12_AggregateAfterAllSettled ==
    /\ Pending # {} => (pc = "searching" /\ results = <<>> /\ response = NoResponse)
    /\ (pc \in {"relisting", "done"} /\ response.kind \in {"none", "found", "noResults"}) =>
           /\ Fulfilled \cup Caught = 1..Len(searchPromises)
           /\ results = Aggregate(allResults, args, mode)

\* two collections answered and the response holds results of both
C12_Witness ==
    /\ pc = "done" /\ response.kind = "found"
    /\ Len(searchPromises) = 2
    /\ Fulfilled = {1, 2}
    /\ \A i \in {1, 2} :
           \E r \in Range(results) : r.collectionName = voyageCollections[i]

\* the phase of the request the handler is in
Phase ==
    CASE pc \in {"constructed", "idle"}        -> "NotStarted"
      [] pc \in {"initializing", "embedding"}  -> "Embedding"
      [] pc = "listing" /\ mode = "vector"     -> "Embedded"
      [] pc = "listing" /\ mode = "lexical"    -> "Degraded"
      [] pc = "searching"                      -> "FanningOut"
      [] pc = "relisting"                      -> "Aggregating"
      [] pc = "done" /\ response.kind = "McpError" -> "Failed"
      [] OTHER                                 -> "Done"

\* the phases that may follow a phase within one request; the step that
\* resolves Promise.all aggregates and, with a non-empty list, answers
PhaseSuccessors(phase) ==
    CASE phase = "NotStarted"  -> {"Embedding"}
      [] phase = "Embedding"   -> {"Embedding", "Embedded", "Degraded"}
      [] phase = "Embedded"    -> {"FanningOut"}
      [] phase = "Degraded"    -> {"FanningOut"}
      [] phase = "FanningOut"  -> {"FanningOut", "Aggregating", "Done"}
      [] phase = "Aggregating" -> {"Done"}
      [] OTHER                 -> {"NotStarted"}

\* C14: a reflect_on_past request goes through NotStarted, Embedding,
\* Degraded or Embedded, FanningOut, Aggregating and Done in this order,
\* skipping none, and ends in Done; it does not end in Failed, since no
\* step of the handler meets an error it cannot recover from.
C14_PhaseOrder ==
    [][ (response'.kind # "stored" /\ pc # "constructed") =>
            /\ Phase' \in PhaseSuccessors(Phase)
            /\ (Phase = "FanningOut" /\ Phase' = "Done") =>
                   results' = Aggregate(allResults, args, mode) ]_vars

\* the request met an error the handler does not recover from: the one
\* await of the handler whose rejection reaches the catch of line 464
HardFailure == embedStatus = "failed"

InDecayMode ==
    /\ pc \in {"searching", "relisting", "done"}
    /\ mode = "vector"
    /\ shouldUseDecay(args)

\* every candidate the decay branch of an answered collection scored: the
\* point the store returned, its collection and its adjusted score
DecayScored ==
    UNION { { [collectionName |-> voyageCollections[i], point |-> p,
               adjusted |-> AdjustedScore(p)] :
              p \in Range(RetrievedForDecay(i)) } : i \in Fulfilled }

\* the entry of DecayCandidates that belongs to a scored candidate
CandidateOf(c) ==
    [collectionName |-> c.collectionName, id |-> c.point.id,
     raw |-> c.point.score, adjusted |-> c.adjusted]

\* C16: with a weight that is not negative, the adjusted score of a
\* candidate with a valid timestamp is at least its raw score, so a
\* candidate that passes minScore by its raw score is not removed by the
\* filter of the decay branch.
C16_DecayNeverLowers ==
    (InDecayMode /\ config.DECAY_WEIGHT >= 0) =>
        \A c \in DecayScored :
            c.point.timestamp.kind = "valid" =>
                /\ c.adjusted >= c.point.score
                /\ (pc = "done" /\ c.point.score >= MinScore(args)
                       /\ AheadOf(CandidateOf(c)) < Limit(args)) =>
                       InResults(CandidateOf(c))

\* C17: in the decay branch a candidate whose timestamp is missing or does
\* not parse is scored with age 0, as a candidate timestamped now is: its
\* adjusted score is its raw score plus the weight, and it is in the
\* results whenever that passes minScore and fewer than limit other
\* passing candidates score as much.
C17_BadTimestampScoredAsNow ==
    InDecayMode =>
        \A c \in DecayScored :
            c.point.timestamp.kind # "valid" =>
                /\ AgeDays(c.point) = 0
                /\ c.adjusted = AdjustedScore([c.point EXCEPT !.timestamp = Timestamp(Today)])
                /\ c.adjusted = c.point.score + config.DECAY_WEIGHT * 1000
                /\ (pc = "done"
                       /\ c.point.score + config.DECAY_WEIGHT * 1000 >= MinScore(args)
                       /\ AheadOf(CandidateOf(c)) < Limit(args)) =>
                       InResults(CandidateOf(c))

\* C18: for every candidate scored in the decay branch, whatever its
\* timestamp, the decay factor is above 0 and at most 1 (1000 thousandths),
\* and it is 1 at age 0, so the boost added to the raw score is at most the
\* weight.
C18_DecayFactorInUnitInterval ==
    InDecayMode =>
        \A c \in DecayScored :
            LET factor == DecayFactor(AgeDays(c.point), config.DECAY_SCALE_DAYS)
            IN  /\ factor > 0
                /\ factor <= 1000
                /\ AgeDays(c.point) = 0 => factor = 1000
                /\ c.adjusted - c.point.score <= config.DECAY_WEIGHT * 1000

\* C19: the decay configuration of the process has a scale above zero and
\* a weight that is not negative, whatever the environment the process was
\* started with, and no step of the server changes the configuration.
C19_DecayConfigValid ==
    /\ [](config.DECAY_SCALE_DAYS > 0 /\ config.DECAY_WEIGHT >= 0)
    /\ [][config' = config]_vars

\* what collection i returns in the vector branch under a scoring mode
ScoredAs(i, decay) ==
    LET name == voyageCollections[i]
        found == IF decay THEN DecayBranch(PointsOf(name), args)
                          ELSE PlainBranch(PointsOf(name), args)
    IN  [k \in 1..Len(found) |-> ToResult(found[k], found[k].score, name)]

\* C20: the scoring mode of a request is its useDecay value when the
\* request gives one, true or false, and the ENABLE_MEMORY_DECAY setting
\* of the process otherwise, and every collection queried by the request
\* is scored in that one mode.
C20_UseDecayOverrides ==
    (mode = "vector" /\ pc \in {"searching", "relisting", "done"}) =>
        LET decay == IF args.useDecay = None THEN config.ENABLE_MEMORY_DECAY
                     ELSE args.useDecay[1]
        IN  \A i \in Fulfilled : searchPromises[i].value = ScoredAs(i, decay)

\* a request with useDecay false under a process with decay enabled: both
\* collections answered without decay, and one of them would have answered
\* differently with it
C20_Witness ==
    /\ pc = "done" /\ mode = "vector"
    /\ config.ENABLE_MEMORY_DECAY /\ args.useDecay = Some(FALSE)
    /\ Len(searchPromises) = 2 /\ Fulfilled = {1, 2}
    /\ \A i \in Fulfilled : searchPromises[i].value = ScoredAs(i, FALSE)
    /\ \E i \in Fulfilled : ScoredAs(i, TRUE) # ScoredAs(i, FALSE)

\* a request in the standard branch whose fan-out has started
InPlainMode ==
    /\ pc \in {"searching", "relisting", "done"}
    /\ mode = "vector"
    /\ ~shouldUseDecay(args)

\* the raw similarity the store holds for a result
RawScoreOf(r) ==
    LET p == CHOOSE q \in Range(PointsOf(r.collectionName)) : q.id = r.id
    IN  p.score

\* the points of a collection whose raw similarity is at least minScore
AtOrAboveMinScore(collectionName) ==
    { p \in Range(PointsOf(collectionName)) : p.score >= MinScore(args) }

\* C21: in the standard branch a collection hands over at most
\* ceil(limit * 1.5) results, as many as the store holds at or above
\* minScore up to that number, each with the raw similarity of its point,
\* and every result of the final list scores at least minScore.
C21_PlainModeThreshold ==
    InPlainMode =>
        /\ \A i \in Fulfilled :
               LET value == searchPromises[i].value
               IN  /\ 2 * Len(value) <= 3 * Limit(args) + 1
                   /\ Len(value) = Min((3 * Limit(args) + 1) \div 2,
                                       Cardinality(AtOrAboveMinScore(voyageCollections[i])))
                   /\ \A r \in Range(value) :
                          /\ r.collectionName = voyageCollections[i]
                          /\ \E p \in AtOrAboveMinScore(voyageCollections[i]) :
                                 p.id = r.id /\ p.score = r.score
        /\ \A r \in Range(results) :
               r.score >= MinScore(args) /\ r.score = RawScoreOf(r)

\* a standard search that returned results while a collection held points
\* below minScore and another more qualifying points than were fetched
C21_Witness ==
    /\ InPlainMode /\ pc = "done" /\ response.kind = "found"
    /\ Fulfilled = {1, 2}
    /\ \E i \in Fulfilled :
           Range(PointsOf(voyageCollections[i])) # AtOrAboveMinScore(voyageCollections[i])
    /\ \E i \in Fulfilled :
           Cardinality(AtOrAboveMinScore(voyageCollections[i]))
               > Len(searchPromises[i].value)

\* the points of a collection whose adjusted score is at least minScore
PassingAfterDecay(collectionName) ==
    { p \in Range(PointsOf(collectionName)) : AdjustedScore(p) >= MinScore(args) }

\* C22: in the decay branch the list a collection hands to the merge has
\* at most limit entries, is sorted by adjusted score, descending, and
\* holds only candidates whose adjusted score is at least minScore; the
\* store is asked for 3 * limit candidates without a threshold, so when the
\* collection holds no more points than that, the list is the best
\* min(limit, number of passing points) of all its passing points, a raw
\* score below minScore notwithstanding.
C22_DecayBranchPipeline ==
    InDecayMode =>
        \A i \in Fulfilled :
            LET value == searchPromises[i].value
                name == voyageCollections[i]
                points == PointsOf(name)
            IN  /\ Len(value) <= Limit(args)
                /\ \A j, k \in 1..Len(value) : j < k => value[j].score >= value[k].score
                /\ \A r \in Range(value) :
                       /\ r.score >= MinScore(args)
                       /\ r.collectionName = name
                       /\ \E p \in Range(points) :
                              p.id = r.id /\ r.score = AdjustedScore(p)
                /\ Cardinality(Range(value)) = Len(value)
                /\ Len(points) <= 3 * Limit(args) =>
                       /\ Len(value) = Min(Limit(args),
                                           Cardinality(PassingAfterDecay(name)))
                       /\ \A p \in PassingAfterDecay(name) :
                              (\E r \in Range(value) : r.id = p.id)
                                  \/ \A r \in Range(value) : r.score >= AdjustedScore(p)

\* a collection handed over limit entries, the first one below minScore by
\* its raw score and ahead of the next, while a passing point was cut off
C22_Witness ==
    /\ InDecayMode /\ pc = "done"
    /\ \E i \in Fulfilled :
           LET value == searchPromises[i].value
               name == voyageCollections[i]
           IN  /\ Len(value) = 2 /\ Limit(args) = 2
               /\ value[1].score > value[2].score
               /\ RawScoreOf(value[1]) < MinScore(args)
               /\ Cardinality(PassingAfterDecay(name)) > 2

\* the place of the point of a result in the scroll order of its collection
ScrollPosition(r) ==
    CHOOSE k \in 1..Len(PointsOf(r.collectionName)) :
        PointsOf(r.collectionName)[k].id = r.id

\* C23: in the lexical fallback every result scores exactly 0.5, each
\* collection is scrolled once and only its first 100 points are looked at,
\* the matches of a collection keep their scroll order, and the final list
\* is the first limit results of the per-collection lists put one after
\* the other in listing order, not sorted again.
C23_LexicalScanOrder ==
    (mode = "lexical" /\ pc \in {"searching", "relisting", "done"}) =>
        /\ io.scroll = Len(voyageCollections) /\ io.search = 0
        /\ \A i \in Fulfilled :
               LET value == searchPromises[i].value
               IN  /\ \A r \in Range(value) :
                          /\ r.score = FallbackScore
                          /\ r.collectionName = voyageCollections[i]
                          /\ ScrollPosition(r) <= ScrollLimit
                   /\ \A j, k \in 1..Len(value) :
                          j < k => ScrollPosition(value[j]) < ScrollPosition(value[k])
        /\ pc \in {"relisting", "done"} =>
               /\ Len(results) = Min(Max(Limit(args), 0), Len(flatResults))
               /\ \A k \in 1..Len(results) : results[k] = flatResults[k]

\* a point that holds the query word beyond the scroll page was not looked
\* at, and a later match of the second collection was cut off by limit
C23_Witness ==
    /\ mode = "lexical" /\ pc = "done" /\ response.kind = "found"
    /\ Fulfilled = {1, 2}
    /\ Len(PointsOf(voyageCollections[1])) > ScrollLimit
    /\ \E p \in Range(PointsOf(voyageCollections[1])) :
           /\ p.id > ScrollLimit
           /\ Includes(ToLowerCase(p.text), ToLowerCase(args.query))
    /\ Len(results) = 2
    /\ results[1].collectionName = voyageCollections[1]
    /\ results[2].collectionName = voyageCollections[2]
    /\ Len(flatResults) > 2

\* the results two different collections returned for one point id
SameIdAcrossCollections ==
    { pair \in Range(flatResults) \X Range(flatResults) :
        /\ pair[1].id = pair[2].id
        /\ pair[1].collectionName # pair[2].collectionName }

\* C24: the merge removes nothing but what the truncation to limit cuts
\* off: the final list has min(limit, number of per-collection results)
\* entries, each one a per-collection result with the collection it came
\* from, so two results with one id from two collections are both kept
\* whenever the limit leaves room for all results.
C24_NoDeduplication ==
    (Answered /\ Limit(args) >= 0) =>
        /\ Len(results) = Min(Limit(args), Len(flatResults))
        /\ \A r \in Range(results) :
               \E i \in Fulfilled :
                   r \in Range(searchPromises[i].value)
                       /\ r.collectionName = voyageCollections[i]
        /\ Len(flatResults) <= Limit(args) =>
               \A pair \in SameIdAcrossCollections :
                   pair[1] \in Range(results) /\ pair[2] \in Range(results)

\* two collections returned a point with the same id and the final list
\* holds both, each under its own collection
C24_Witness ==
    /\ Answered
    /\ \E j, k \in 1..Len(results) :
           /\ j # k
           /\ results[j].id = results[k].id
           /\ results[j].collectionName # results[k].collectionName
           /\ <<results[j], results[k]>> \in SameIdAcrossCollections

StartsReflectOnPast == pc = "idle" /\ pc' # "idle" /\ response'.kind # "stored"

\* C26: the fallback is chosen anew by every request: a reflect_on_past
\* call that finds no embedding service attempts the initialization before
\* it chooses its search, a call that finds one goes to the vector search
\* without initializing, a failed initialization sends the request to the
\* text search and not to an error, and no step drops an embedding service
\* the server holds.
C26_DegradedNotSticky ==
    /\ [](mode = "lexical" => (io.initialize = 1 /\ io.embed = 0))
    /\ [][ /\ embeddingService => embeddingService'
           /\ StartsReflectOnPast =>
                  IF embeddingService
                  THEN pc' = "embedding" /\ mode' = "vector" /\ io'.initialize = 0
                  ELSE pc' = "initializing" /\ mode' = "none" /\ io'.initialize = 1
           /\ pc = "initializing" =>
                  \/ embeddingService' /\ pc' = "embedding" /\ mode' = "vector"
                  \/ /\ ~embeddingService' /\ pc' = "listing" /\ mode' = "lexical"
                     /\ response' = NoResponse ]_vars

\* a server that started without an embedding service obtained one in the
\* initialization a request attempted, and that request searches by vector
C26_Witness ==
    /\ pc = "searching"
    /\ mode = "vector"
    /\ io.initialize = 1
    /\ embeddingService

\* the filtered, sorted list of collection i before its truncation to
\* limit; nothing for a collection whose query failed
Untruncated(i) ==
    IF i \in Caught THEN <<>>
    ELSE LET kept == SelectSeq(ApplyDecay(RetrievedForDecay(i)),
                               LAMBDA p : p.score >= MinScore(args))
             sorted == SortByScoreDesc(kept)
         IN  [k \in 1..Len(sorted) |->
                 ToResult(sorted[k], sorted[k].score, voyageCollections[i])]

\* C27: in the decay branch the truncation of each collection's list to
\* limit does not change the final list: it equals the list obtained by
\* sorting the untruncated filtered lists of all collections together and
\* truncating once.
C27_PerCollectionTruncationNeutral ==
    (InDecayMode /\ pc \in {"relisting", "done"}) =>
        results = Slice(SortByScoreDesc(
                            Flat([i \in 1..Len(searchPromises) |-> Untruncated(i)])),
                        Limit(args))

\* the list of a collection was cut to limit while both collections
\* contributed to the final list
C27_Witness ==
    /\ InDecayMode /\ pc = "done" /\ response.kind = "found"
    /\ Fulfilled = {1, 2}
    /\ \E i \in Fulfilled : Len(Untruncated(i)) > Len(searchPromises[i].value)
    /\ \A i \in Fulfilled :
           \E r \in Range(results) : r.collectionName = voyageCollections[i]

====
